---- MODULE Spec2Model ----
(***************************************************************************)
(* Passive omega-learning ("sprout") of longfangsong/lama:                 *)
(*   - the prefix automaton of a set of ultimately periodic words          *)
(*     (automata-learning/src/sample.rs, Prefixes::successor),             *)
(*   - the conflict relation of a sample                                   *)
(*     (automata-learning/src/passive/sprout.rs,                           *)
(*      prefix_consistency_conflicts and ConflictRelation::consistent),    *)
(*   - the greedy construction of a right congruence                       *)
(*     (automata-learning/src/passive/sprout.rs, omega_sprout).            *)
(*                                                                         *)
(* A Class and a state of a prefix automaton are the same thing here: the  *)
(* finite sequence of symbols that labels the state.  The code stores the  *)
(* automaton under state indices, one index per Class, so a pair of        *)
(* indices of the code is a pair of Classes of this module.                *)
(***************************************************************************)
EXTENDS Integers, Sequences, FiniteSets, TLC

\* ------------------------------------------------------------------ bounds
\* Total number of symbols (base plus period, summed over the words) of an
\* enumerated sample.
MaxSampleLen == 5
\* omega_sprout is stopped when the congruence would get more states.
MaxStates == 4
\* A prefix automaton is not explored below this depth.
MaxClassLen == 12
\* Length of the finite words that are run through the automata.
MaxLen == 4

\* The largest number of states of a DFA that the model builds.
MaxDfaStates == 2

\* The largest number of edges that two DFAs built by the model have together.
MaxDfaEdges == 4

\* The largest number of states of a transition system that words are run in.
MaxRunStates == 2

\* Length of the finite words that are run with Runnable::run_in_from.
MaxWordLen == 3

\* Length of the base of an ultimately periodic word that is run.
MaxBaseLen == 1

\* Length of the period of an ultimately periodic word that is run.
MaxRecurLen == 2

\* Bounds of the congruences edited freely: states and edges.
MaxEditStates == 2

MaxEditEdges == 3

\* The largest state identifier given to Deterministic::add_state and
\* Deterministic::remove_state.
MaxStateId == 4

\* ---------------------------------------------------------------- alphabet
\* The alphabet in its enumeration order (Alphabet::universe).
Sigma == <<"a", "b">>

Symbols == {Sigma[i] : i \in 1..Len(Sigma)}

\* --------------------------------------------------------------------- words
\* All finite words over Symbols of length at most n.
SeqsUpTo(n) == UNION {[1..k -> Symbols] : k \in 0..n}

\* An ultimately periodic word base . recur^omega.
upw(base, recur) == [base |-> base, recur |-> recur]

base_length(w) == Len(w.base)

recur_length(w) == Len(w.recur)

\* The symbol at position i (from 0) of the periodic expansion.
nth(w, i) ==
    IF i < base_length(w)
    THEN w.base[i + 1]
    ELSE w.recur[((i - base_length(w)) % recur_length(w)) + 1]

\* The finite word c is a prefix of the periodic expansion of w.
has_prefix(w, c) == \A i \in 1..Len(c) : nth(w, i - 1) = c[i]

\* The first n symbols of the periodic expansion of w.
PrefixOf(w, n) == [i \in 1..n |-> nth(w, i - 1)]

\* The period is not a proper power of a shorter word.
Primitive(r) ==
    \A d \in 1..(Len(r) - 1) :
        (Len(r) % d = 0) => \E i \in 1..Len(r) : r[i] # r[((i - 1) % d) + 1]

\* The shortest representation of the word: a primitive period, and a base
\* that does not end with the last symbol of the period.
Reduced(w) ==
    /\ recur_length(w) >= 1
    /\ Primitive(w.recur)
    /\ (base_length(w) = 0 \/ w.base[Len(w.base)] # w.recur[Len(w.recur)])

\* The words of representation length at most n.
WordsUpTo(n) ==
    {w \in UNION {[base : [1..i -> Symbols], recur : [1..j -> Symbols]] :
                    i \in 0..n, j \in 1..n} :
        base_length(w) + recur_length(w) <= n /\ Reduced(w)}

RECURSIVE SymbolCount(_)
SymbolCount(S) ==
    IF S = {} THEN 0
    ELSE LET w == CHOOSE x \in S : TRUE
         IN  base_length(w) + recur_length(w) + SymbolCount(S \ {w})

\* Variant of find_words_with_prefix that does not compare the last symbol
\* of the Class.
find_words_ignoring_last(set, class) ==
    {w \in set : has_prefix(w, SubSeq(class, 1, Len(class) - 1))}

\* Variant of find_words_with_prefix that finds no word for the empty Class.
find_words_with_proper_prefix(set, class) ==
    {w \in set : class # <<>> /\ has_prefix(w, class)}

\* ---------------------------------------------------------- prefix automaton
\* find_words_with_prefix: the words of the set that have the class as a prefix.
find_words_with_prefix(set, class) == {w \in set : has_prefix(w, class)}

\* The outcomes of Prefixes::successor.  "Some" carries the successor Class,
\* "None" is the absent successor.  "Overflow" is the subtraction
\* successor.length() - word.recur_length() on a candidate shorter than the
\* period: the checked build panics there, and the unchecked build asks the
\* candidate for a prefix far longer than the candidate.
Some(q) == [tag |-> "Some", q |-> q]

None == [tag |-> "None", q |-> <<>>]

Overflow == [tag |-> "Overflow", q |-> <<>>]

\* Variant of successor without the early return on an empty word list: the
\* index words_with_prefix[0] is then out of bounds.
successor_unguarded(set, from, on) ==
    LET candidate == Append(from, on)
        words_with_prefix == find_words_with_prefix(set, candidate)
    IN  IF words_with_prefix = {} THEN Overflow
        ELSE IF Cardinality(words_with_prefix) > 1 THEN Some(candidate)
        ELSE LET word == CHOOSE w \in words_with_prefix : TRUE
             IN  IF Len(candidate) < recur_length(word) THEN Overflow
                 ELSE LET base == SubSeq(candidate, 1,
                                         Len(candidate) - recur_length(word))
                          words_with_prefix_for_base ==
                              find_words_with_prefix(set, base)
                      IN  IF Cardinality(words_with_prefix_for_base) = 1
                          THEN Some(base)
                          ELSE IF words_with_prefix_for_base # {}
                          THEN Some(candidate)
                          ELSE None

\* Variant of successor that never folds the candidate of a single word onto
\* its base.
successor_unfolded(set, from, on) ==
    LET candidate == Append(from, on)
        words_with_prefix == find_words_with_prefix(set, candidate)
    IN  IF words_with_prefix = {} THEN None
        ELSE Some(candidate)

\* Prefixes::successor(from, on).
successor(set, from, on) ==
    LET candidate == Append(from, on)
        words_with_prefix == find_words_with_prefix(set, candidate)
    IN  IF words_with_prefix = {} THEN None
        ELSE IF Cardinality(words_with_prefix) > 1 THEN Some(candidate)
        ELSE LET word == CHOOSE w \in words_with_prefix : TRUE
             IN  IF Len(candidate) < recur_length(word) THEN Overflow
                 ELSE LET base == SubSeq(candidate, 1,
                                         Len(candidate) - recur_length(word))
                          words_with_prefix_for_base ==
                              find_words_with_prefix(set, base)
                      IN  IF Cardinality(words_with_prefix_for_base) = 1
                          THEN Some(base)
                          ELSE IF words_with_prefix_for_base # {}
                          THEN Some(candidate)
                          ELSE None

\* The edges that leave the Class q: one per symbol with a successor.
edges_from(set, q) ==
    {<<q, a, successor(set, q, a).q>> :
        a \in {s \in Symbols : successor(set, q, s).tag = "Some"}}

\* The breadth-first visit of LengthLexicographicEdges from the empty Class:
\* `seen` extended by every Class reachable from `frontier`.
RECURSIVE Visit(_, _, _)
Visit(set, seen, frontier) ==
    IF frontier = {} THEN seen
    ELSE LET open == {q \in frontier : Len(q) < MaxClassLen}
             found == {e[3] : e \in UNION {edges_from(set, q) : q \in open}}
                        \ seen
         IN  Visit(set, seen \cup found, found)

\* prefix_acceptor(set): the automaton collected from the visit.  Every state
\* is accepting; `panics` tells that the visit evaluated a successor whose
\* subtraction overflows, `cut` that the visit reached the depth bound.
prefix_acceptor(set) ==
    LET states == Visit(set, {<<>>}, {<<>>})
    IN  [states |-> states,
         edges  |-> UNION {edges_from(set, q) : q \in states},
         panics |-> \E q \in states, a \in Symbols :
                        successor(set, q, a).tag = "Overflow",
         cut    |-> \E q \in states : Len(q) >= MaxClassLen]

\* ------------------------------------------------- deterministic edge sets
\* An edge set is a set of triples <<source, symbol, target>> with at most
\* one target per source and symbol.
has_edge(E, q, a) == \E e \in E : e[1] = q /\ e[2] = a

target_of(E, q, a) == (CHOOSE e \in E : e[1] = q /\ e[2] = a)[3]

\* The run of the finite word u from q: the sequence of the states visited,
\* cut at the first missing transition.
RECURSIVE run_from(_, _, _)
run_from(E, q, u) ==
    IF u = <<>> \/ ~has_edge(E, q, u[1]) THEN <<q>>
    ELSE <<q>> \o run_from(E, target_of(E, q, u[1]), Tail(u))

\* The word has a complete run from q.
has_run(E, q, u) == Len(run_from(E, q, u)) = Len(u) + 1

\* The state reached by a word that has a complete run.
reached(E, q, u) == run_from(E, q, u)[Len(u) + 1]

\* Accepts::accepts for an automaton whose states are all accepting.
accepts(dfa, u) == has_run(dfa.edges, <<>>, u)

\* The synchronous product: the pairs reachable from `frontier`, added to
\* `seen`.  A pair has an a-successor iff both components have one.
product_edges_from(E1, E2, s) ==
    {<<s, a, <<target_of(E1, s[1], a), target_of(E2, s[2], a)>>>> :
        a \in {x \in Symbols : has_edge(E1, s[1], x) /\ has_edge(E2, s[2], x)}}

RECURSIVE reachable_state_indices(_, _, _, _)
reachable_state_indices(E1, E2, seen, frontier) ==
    IF frontier = {} THEN seen
    ELSE LET found == {e[3] : e \in UNION {product_edges_from(E1, E2, s) :
                                              s \in frontier}} \ seen
         IN  reachable_state_indices(E1, E2, seen \cup found, found)

\* product(left, right) from the pair of the initial states.
product(E1, i1, E2, i2) ==
    LET states == reachable_state_indices(E1, E2, {<<i1, i2>>}, {<<i1, i2>>})
    IN  [states |-> states,
         edges  |-> UNION {product_edges_from(E1, E2, s) : s \in states}]

\* ------------------------------------------------------------------- SCCs
\* The states reached from s by one or more edges.
RECURSIVE after(_, _, _)
after(E, seen, frontier) ==
    LET found == {e[3] : e \in {x \in E : x[1] \in frontier}} \ seen
    IN  IF found = {} THEN seen ELSE after(E, seen \cup found, found)

reach_plus(E, s) == after(E, {e[3] : e \in {x \in E : x[1] = s}},
                          {e[3] : e \in {x \in E : x[1] = s}})

\* sccs(): the maximal strongly connected components of a transition system.
sccs(ts) ==
    LET plus == [s \in ts.states |-> reach_plus(ts.edges, s)]
    IN  {{s} \cup {t \in plus[s] : s \in plus[t]} : s \in ts.states}

\* Scc::is_trivial: a single state that has no edge to itself.
is_trivial(ts, scc) ==
    /\ Cardinality(scc) = 1
    /\ \A s \in scc : ~\E e \in ts.edges : e[1] = s /\ e[3] = s

\* ------------------------------------------------------------------- state
VARIABLES
    positive,   \* Sample: the positive words
    negative,   \* Sample: the negative words
    pc,         \* position of the program
    dfas,       \* ConflictRelation.dfas: the two prefix automata
    conflicts,  \* ConflictRelation.conflicts: pairs of prefix-automaton states
    cong,       \* omega_sprout: the congruence, [colors, edges]
    queue,      \* omega_sprout: the queue of <<state, symbol>> items
    source,     \* omega_sprout: state of the popped item
    sym,        \* omega_sprout: symbol of the popped item
    target,     \* omega_sprout: the target of the inner loop
    ts1,        \* automata library: the transition system / DFA `self`
    ts2,        \* automata library: the DFA `other`
    ret         \* automata library: what the last operation returned

vars == <<positive, negative, pc, dfas, conflicts, cong, queue, source, sym,
          target, ts1, ts2, ret>>

\* The variables of the learner and those of the automata library.
sprout_vars == <<positive, negative, dfas, conflicts, cong, queue, source, sym,
                 target>>

lib_vars == <<ts1, ts2, ret>>

\* ------------------------------------------------------------- congruence
\* RightCongruence::new: the state 0, coloured with the empty Class, no edge.
new_congruence == [colors |-> <<(<<>>)>>, edges |-> <<>>]

\* FiniteState::state_indices and size.
size(c) == Len(c.colors)

state_indices(c) == 0..(size(c) - 1)

state_color(c, q) == c.colors[q + 1]

\* Sproutable::add_edge appends the edge to the edge list.
add_edge(c, from, on, to) ==
    [c EXCEPT !.edges = Append(@, <<from, on, to>>)]

\* undo_add_edge takes the most recently added edge away again.
undo_add_edge(c) ==
    [c EXCEPT !.edges = SubSeq(@, 1, Len(@) - 1)]

\* Variant of add_state that puts the new state first, moving the others up
\* by one index.
add_state_first(c, color) == [c EXCEPT !.colors = <<color>> \o @]

\* Sproutable::add_state: the new state gets the index states.len().
add_state(c, color) == [c EXCEPT !.colors = Append(@, color)]

\* Variant of cong_edges in which the last edge of the source, in the order
\* of insertion, that matches the symbol is the one taken.
cong_edges_last(c) ==
    {c.edges[i] : i \in {j \in 1..Len(c.edges) :
        \A k \in (j + 1)..Len(c.edges) :
            ~(c.edges[k][1] = c.edges[j][1] /\ c.edges[k][2] = c.edges[j][2])}}

\* Successor::successor of IndexTS: the first edge of the source, in the
\* order of insertion, that matches the symbol.
cong_edges(c) ==
    {c.edges[i] : i \in {j \in 1..Len(c.edges) :
        \A k \in 1..(j - 1) :
            ~(c.edges[k][1] = c.edges[j][1] /\ c.edges[k][2] = c.edges[j][2])}}

\* ------------------------------------------------------- conflict relation
\* ConflictRelation::consistent.
\* Variant of consistent that tests the pair in the order (negative, positive).
consistent_swapped(d, conf, c) ==
    LET left  == product(cong_edges(c), 0, d[1].edges, <<>>)
        right == product(cong_edges(c), 0, d[2].edges, <<>>)
    IN  ~\E left_index \in left.states :
            \E right_index \in right.states :
                <<right_index[2], left_index[2]>> \in conf

\* Variant of consistent that rejects only if every reached pair conflicts.
consistent_all(d, conf, c) ==
    LET left  == product(cong_edges(c), 0, d[1].edges, <<>>)
        right == product(cong_edges(c), 0, d[2].edges, <<>>)
    IN  ~\A left_index \in left.states :
            \A right_index \in right.states :
                <<left_index[2], right_index[2]>> \in conf

consistent(d, conf, c) ==
    LET left  == product(cong_edges(c), 0, d[1].edges, <<>>)
        right == product(cong_edges(c), 0, d[2].edges, <<>>)
    IN  ~\E left_index \in left.states :
            \E right_index \in right.states :
                <<left_index[2], right_index[2]>> \in conf

\* prefix_consistency_conflicts: the conflict pairs of two prefix automata.
\* Variant of conflict_pairs that keeps the trivial components.
conflict_pairs_unfiltered(left_pta, right_pta) ==
    LET dfa == product(left_pta.edges, <<>>, right_pta.edges, <<>>)
    IN  UNION sccs(dfa)

\* Variant of conflict_pairs that combines the components of any two pairs
\* of one non-trivial component.
conflict_pairs_crossed(left_pta, right_pta) ==
    LET dfa == product(left_pta.edges, <<>>, right_pta.edges, <<>>)
    IN  UNION {{<<s[1], t[2]>> : s \in scc, t \in scc} :
                  scc \in {x \in sccs(dfa) : ~is_trivial(dfa, x)}}

conflict_pairs(left_pta, right_pta) ==
    LET dfa == product(left_pta.edges, <<>>, right_pta.edges, <<>>)
    IN  UNION {scc \in sccs(dfa) : ~is_trivial(dfa, scc)}

\* ------------------------------------------------------ automata library
\* A transition system of the library is [states, initial, edges, color]:
\* the state indices, the initial state, the deterministic edge set and the
\* colour of every state (for a DFA: accepting or not).

\* DFA::new(alphabet): the initial state 0 alone.
new_dfa(color) ==
    [states |-> {0}, initial |-> 0, edges |-> {}, color |-> [q \in {0} |-> color]]

\* Sproutable::add_state(color): the new index is the number of states.
dfa_add_state(d, color) ==
    LET id == Cardinality(d.states)
    IN  [d EXCEPT !.states = @ \cup {id},
                  !.color = [q \in d.states \cup {id} |->
                                IF q = id THEN color ELSE d.color[q]]]

\* Sproutable::add_edge(from, on, to) on a state without an edge on `on`.
dfa_add_edge(d, from, on, to) ==
    [d EXCEPT !.edges = @ \cup {<<from, on, to>>}]

\* Growable::add_transition(from, on, to): the mapping entry is replaced.
add_transition(d, from, on, to) ==
    [d EXCEPT !.edges = {e \in @ : ~(e[1] = from /\ e[2] = on)}
                            \cup {<<from, on, to>>}]

\* TransitionSystem::succ(from, on).
succ(d, from, on) ==
    IF has_edge(d.edges, from, on) THEN Some(target_of(d.edges, from, on))
    ELSE None

\* reached_state_color(word): the colour of the state the word reaches from
\* the initial state, absent when the word has no complete run.
reached_state_color(d, word) ==
    IF has_run(d.edges, d.initial, word)
    THEN Some(d.color[reached(d.edges, d.initial, word)])
    ELSE None

\* FiniteWordAcceptor::accepts_finite: reached_state_color(word).unwrap_or(false).
accepts_finite(d, word) ==
    LET c == reached_state_color(d, word)
    IN  IF c.tag = "Some" THEN c.q ELSE FALSE

\* ts_product(other): the pairs reachable from the pair of initial states; a
\* pair has an edge on a symbol when both components have one.  The colour of
\* a pair is the pair of colours.
ts_product(d1, d2) ==
    LET p == product(d1.edges, d1.initial, d2.edges, d2.initial)
    IN  [states  |-> p.states,
         initial |-> <<d1.initial, d2.initial>>,
         edges   |-> p.edges,
         color   |-> [s \in p.states |-> <<d1.color[s[1]], d2.color[s[2]]>>]]

\* map_state_colors(f).
map_state_colors(d, f) == [d EXCEPT !.color = [q \in d.states |-> f[d.color[q]]]]

\* DFALike::union: ts_product(other).map_state_colors(|(a, b)| a || b).
union(d1, d2) ==
    LET or == [c \in BOOLEAN \X BOOLEAN |-> c[1] \/ c[2]]
    IN  map_state_colors(ts_product(d1, d2), or)

\* DFALike::intersection: ts_product(other).map_state_colors(|(a, b)| a && b).
intersection(d1, d2) ==
    LET and == [c \in BOOLEAN \X BOOLEAN |-> c[1] /\ c[2]]
    IN  map_state_colors(ts_product(d1, d2), and)

\* DFALike::negation: map_state_colors(|x| !x).
negation(d) ==
    LET not == [c \in BOOLEAN |-> ~c]
    IN  map_state_colors(d, not)

\* The states reachable from the initial state.
reachable_states(d) == {d.initial} \cup reach_plus(d.edges, d.initial)

\* DFALike::dfa_give_word: the minimal representative of the first reachable
\* state that is accepting, absent when there is none.  A reachable state is
\* reached by a word shorter than the number of states.
dfa_give_word(d) ==
    LET words == {w \in SeqsUpTo(Cardinality(d.states) - 1) : accepts_finite(d, w)}
    IN  IF \E q \in reachable_states(d) : d.color[q]
        THEN Some(CHOOSE w \in words : \A v \in words : Len(w) <= Len(v))
        ELSE None

\* DFALike::equivalent: self.negation().intersection(other).dfa_give_word()
\* .is_none().
equivalent(d1, d2) == dfa_give_word(intersection(negation(d1), d2)).tag = "None"

\* ---------------------------------------------------------------- running
\* RunOutput: what the walker yields for one consumed symbol.
Transition(q, a, p) == [tag |-> "Transition", q |-> q, a |-> a, p |-> p]

WordEnd(q) == [tag |-> "WordEnd", q |-> q]

Missing(q, a) == [tag |-> "Missing", q |-> q, a |-> a]

\* Walk::walk(from, word) for a finite word: one Transition for every symbol
\* that has a transition, then WordEnd with the state reached, or Missing
\* with the state and the symbol at the first missing transition.
RECURSIVE walk(_, _, _)
walk(d, from, word) ==
    IF word = <<>> THEN <<WordEnd(from)>>
    ELSE LET p == succ(d, from, word[1])
         IN  IF p.tag = "None" THEN <<Missing(from, word[1])>>
             ELSE <<Transition(from, word[1], p.q)>> \o walk(d, p.q, Tail(word))

\* Subword::skip(n) of a finite word.
skip(word, n) == SubSeq(word, n + 1, Len(word))

Ok(v) == [tag |-> "Ok", v |-> v]

Err(path, q, a, suffix) ==
    [tag |-> "Err", path |-> path, q |-> q, a |-> a, suffix |-> suffix]

\* The transitions that a sequence of run outputs starts with.
trace_of(outs) == SubSeq(outs, 1, Len(outs) - 1)

\* Runnable::run_in_from for Str, with the path one transition short.
run_in_from_short(d, word, from) ==
    LET outs == walk(d, from, word)
        last == outs[Len(outs)]
        trace == trace_of(outs)
        short == SubSeq(trace, 1, Len(trace) - 1)
    IN  IF last.tag = "WordEnd" THEN Ok(last.q)
        ELSE Err(short, last.q, last.a, skip(word, Len(short)))

\* Runnable::run_in_from for Str: the transitions are pushed to the trace;
\* WordEnd(q) gives Ok(q), Missing(q, a) gives Err((trace, q, a, suffix))
\* where the suffix is the word without the symbols of the trace.
run_in_from(d, word, from) ==
    LET outs == walk(d, from, word)
        last == outs[Len(outs)]
        trace == trace_of(outs)
    IN  IF last.tag = "WordEnd" THEN Ok(last.q)
        ELSE Err(trace, last.q, last.a, skip(word, Len(trace)))

\* Walker::try_take_n(n) at position pos of the periodic word: the next n
\* transitions, or Missing at the first symbol without a transition.  `seq`
\* is the sequence of all transitions the walker has taken (Walker::seq).
RECURSIVE try_take_n(_, _, _, _, _, _)
try_take_n(d, w, q, pos, seq, n) ==
    IF n = 0 THEN [tag |-> "Ok", q |-> q, pos |-> pos, seq |-> seq]
    ELSE LET a == nth(w, pos)
             p == succ(d, q, a)
         IN  IF p.tag = "None"
             THEN [tag |-> "Missing", q |-> q, a |-> a, pos |-> pos, seq |-> seq]
             ELSE try_take_n(d, w, p.q, pos + 1,
                             Append(seq, Transition(q, a, p.q)), n - 1)

\* The set of the transitions of a sequence (into_transitions, collect).
into_transitions(seq) == {<<seq[i].q, seq[i].a, seq[i].p>> : i \in 1..Len(seq)}

\* What try_take_n hands to `seen`: the state reached by the piece, or the
\* piece itself.
Pieces == {"reached", "piece"}

\* The loop of run_in_from for an ultimately periodic word: pieces of
\* recur_length symbols are taken until a piece is seen for the second time;
\* then all transitions the walker has taken are returned.  The loop is given
\* up after `fuel` pieces.
RECURSIVE take_pieces(_, _, _, _, _, _)
take_pieces(d, recur, kind, walker, seen, fuel) ==
    IF fuel = 0 THEN [tag |-> "Running"]
    ELSE LET n == recur_length(recur)
             t == try_take_n(d, recur, walker.q, walker.pos, walker.seq, n)
             recur_reached ==
                 IF kind = "reached" THEN t.q
                 ELSE SubSeq(t.seq, Len(walker.seq) + 1, Len(t.seq))
         IN  IF t.tag = "Missing"
             THEN Err(t.seq, t.q, t.a,
                      upw(<<>>, skip(recur.recur, t.pos % n)
                                    \o SubSeq(recur.recur, 1, t.pos % n)))
             ELSE IF recur_reached \in seen THEN Ok(into_transitions(t.seq))
             ELSE take_pieces(d, recur, kind, t, seen \cup {recur_reached},
                              fuel - 1)

\* Runnable::run_in_from for UltimatelyPeriodicWord: the base is run as a
\* finite word, then the period is walked from the state reached.
upw_run_in_from(d, w, from, kind) ==
    LET prefix == run_in_from(d, w.base, from)
    IN  IF prefix.tag = "Err"
        THEN Err(prefix.path, prefix.q, prefix.a,
                 upw(skip(w.base, Len(prefix.path)), w.recur))
        ELSE take_pieces(d, upw(<<>>, w.recur), kind,
                         [q |-> prefix.v, pos |-> 0, seq |-> <<>>], {},
                         Cardinality(d.states) + 2)

\* -------------------------------------------------------------- restriction
\* RestrictByStateIndex::new(ts, filter); the filter is the set of the state
\* indices for which it is true.
restrict_state_indices(d, filter) == [ts |-> d, filter |-> filter]

\* RestrictByStateIndexIter: the state indices of ts that pass the filter.
restricted_state_indices(r) == {idx \in r.ts.states : idx \in r.filter}

\* The edges of ts from q with the filter applied to the source, as
\* RestrictedEdgesToIter::next applies it.
restricted_edges_to(r, q) == {edge \in r.ts.edges : edge[1] = q /\ edge[1] \in r.filter}

\* RestrictedEdgesFromIter::next: the edges of ts from q whose target passes
\* the filter.
restricted_edges_from(r, q) == {edge \in r.ts.edges : edge[1] = q /\ edge[3] \in r.filter}

Panic == [tag |-> "Panic"]

\* Pointed::initial: assert!((self.filter)(initial)).
restricted_initial(r) ==
    IF r.ts.initial \in r.filter THEN Some(r.ts.initial) ELSE Panic

\* The edges of the restriction.
restricted_edges(r) == UNION {restricted_edges_from(r, q) : q \in r.ts.states}

\* Acceptor::accepts of the restriction: the word is run from initial()
\* along the edges of the restriction.
restricted_accepts(r, word) ==
    LET i == restricted_initial(r)
        E == restricted_edges(r)
    IN  IF i.tag = "Panic" THEN Panic
        ELSE Some(/\ has_run(E, i.q, word)
                  /\ r.ts.color[reached(E, i.q, word)])

\* No operation of the library has returned.
NoRet == [op |-> "none"]

\* ----------------------------------------------------------------- samples
\* The sample of the end-to-end example as the specification words it.
EndToEndPositive ==
    {upw(<<>>, <<"b">>), upw(<<>>, <<"a", "b", "a", "b">>),
     upw(<<>>, <<"a", "b", "b", "a", "b">>)}

EndToEndNegative == {upw(<<"a">>, <<"b">>), upw(<<>>, <<"a">>)}

\* The sample of tests::prefix_consistency_sprout, each word given by its
\* symbols and the index at which its loop starts.
TestPositive ==
    {upw(<<>>, <<"b">>), upw(<<"a", "b", "a">>, <<"b">>),
     upw(<<"a", "b", "b", "a">>, <<"b">>)}

TestNegative == {upw(<<"a">>, <<"b">>), upw(<<>>, <<"a">>)}

\* A sample whose two prefix automata share a cycle of two states.
TwoCyclePositive == {upw(<<>>, <<"a">>), upw(<<>>, <<"a", "b">>)}

TwoCycleNegative ==
    {upw(<<"a">>, <<"a", "b">>), upw(<<"a", "b", "a", "b">>, <<"b", "a">>)}

\* A sample for which the second state is the first consistent target of an
\* item.
SecondTargetPositive ==
    {upw(<<>>, <<"a">>), upw(<<>>, <<"b">>), upw(<<"b", "b">>, <<"a">>)}

SecondTargetNegative ==
    {upw(<<"a", "a">>, <<"b">>), upw(<<"b", "b", "b">>, <<"a">>)}

NoTree == [states |-> {}, edges |-> {}, panics |-> FALSE, cut |-> FALSE]

Init ==
    /\ \/ positive = {} /\ negative = {}
       \/ positive = EndToEndPositive /\ negative = EndToEndNegative
       \/ positive = TestPositive /\ negative = TestNegative
       \/ positive = TwoCyclePositive /\ negative = TwoCycleNegative
       \/ positive = SecondTargetPositive /\ negative = SecondTargetNegative
    /\ pc = "sample"
    /\ dfas = <<NoTree, NoTree>>
    /\ conflicts = {}
    /\ cong = new_congruence
    /\ queue = <<>>
    /\ source = 0
    /\ sym = Sigma[1]
    /\ target = 0
    /\ ts1 = new_dfa(FALSE)
    /\ ts2 = new_dfa(FALSE)
    /\ ret = NoRet

\* ----------------------------------------------------------------- actions
\* A word joins the positive or the negative side of the sample; the two
\* sides stay disjoint.
InsertWord ==
    /\ pc = "sample"
    /\ UNCHANGED lib_vars
    /\ \E w \in WordsUpTo(MaxSampleLen - SymbolCount(positive \cup negative)) :
        /\ w \notin positive \cup negative
        /\ \/ positive' = positive \cup {w} /\ negative' = negative
           \/ negative' = negative \cup {w} /\ positive' = positive
    /\ UNCHANGED <<pc, dfas, conflicts, cong, queue, source, sym, target>>

\* prefix_consistency_conflicts, when both prefix automata can be built.
PrefixConsistencyConflicts ==
    /\ pc = "sample"
    /\ UNCHANGED lib_vars
    /\ LET left_pta  == prefix_acceptor(positive)
           right_pta == prefix_acceptor(negative)
       IN  /\ ~left_pta.panics /\ ~right_pta.panics
           /\ ~left_pta.cut /\ ~right_pta.cut
           /\ dfas' = <<left_pta, right_pta>>
           /\ conflicts' = conflict_pairs(left_pta, right_pta)
    /\ pc' = "sprout"
    /\ UNCHANGED <<positive, negative, cong, queue, source, sym, target>>

\* prefix_consistency_conflicts, when building a prefix automaton overflows.
PrefixTreePanic ==
    /\ pc = "sample"
    /\ UNCHANGED lib_vars
    /\ prefix_acceptor(positive).panics \/ prefix_acceptor(negative).panics
    /\ pc' = "panic"
    /\ UNCHANGED <<positive, negative, dfas, conflicts, cong, queue, source,
                   sym, target>>

\* omega_sprout up to its loop: the one-state congruence and the queue of
\* the items of the initial state, in the order of the alphabet.
OmegaSprout ==
    /\ pc = "sprout"
    /\ UNCHANGED lib_vars
    /\ cong' = new_congruence
    /\ queue' = [i \in 1..Len(Sigma) |-> <<0, Sigma[i]>>]
    /\ pc' = "loop"
    /\ UNCHANGED <<positive, negative, dfas, conflicts, source, sym, target>>

\* Variant of PopFront that takes any item of the queue, as an unordered
\* work set would.
PopAny ==
    /\ pc = "loop"
    /\ UNCHANGED lib_vars
    /\ queue # <<>>
    /\ \E i \in 1..Len(queue) :
           /\ source' = queue[i][1]
           /\ sym' = queue[i][2]
           /\ queue' = SubSeq(queue, 1, i - 1) \o SubSeq(queue, i + 1, Len(queue))
    /\ target' = 0
    /\ pc' = "try"
    /\ UNCHANGED <<positive, negative, dfas, conflicts, cong>>

\* 'outer: while let Some((source, sym)) = queue.pop_front(); the inner loop
\* starts at the first state index.
PopFront ==
    /\ pc = "loop"
    /\ UNCHANGED lib_vars
    /\ queue # <<>>
    /\ source' = Head(queue)[1]
    /\ sym' = Head(queue)[2]
    /\ queue' = Tail(queue)
    /\ target' = 0
    /\ pc' = "try"
    /\ UNCHANGED <<positive, negative, dfas, conflicts, cong>>

\* Variant of AddEdge that goes on to the next target without the check.
AddEdgeEager ==
    /\ pc = "try"
    /\ UNCHANGED lib_vars
    /\ cong' = add_edge(cong, source, sym, target)
    /\ target' = target + 1
    /\ pc' = IF target + 1 \in state_indices(cong) THEN "try" ELSE "new"
    /\ UNCHANGED <<positive, negative, dfas, conflicts, queue, source, sym>>

\* cong.add_edge(source, sym, target): the tentative edge.
AddEdge ==
    /\ pc = "try"
    /\ UNCHANGED lib_vars
    /\ cong' = add_edge(cong, source, sym, target)
    /\ pc' = "check"
    /\ UNCHANGED <<positive, negative, dfas, conflicts, queue, source, sym,
                   target>>

\* Variant of Keep that keeps the tentative edge without the check.
KeepUnchecked ==
    /\ pc = "check"
    /\ UNCHANGED lib_vars
    /\ pc' = "loop"
    /\ UNCHANGED <<positive, negative, dfas, conflicts, cong, queue, source,
                   sym, target>>

\* conflicts.consistent(&cong) holds: continue 'outer.
Keep ==
    /\ pc = "check"
    /\ UNCHANGED lib_vars
    /\ consistent(dfas, conflicts, cong)
    /\ pc' = "loop"
    /\ UNCHANGED <<positive, negative, dfas, conflicts, cong, queue, source,
                   sym, target>>

\* Variant of Undo that leaves the rejected edge in the congruence.
UndoKeepingEdge ==
    /\ pc = "check"
    /\ UNCHANGED lib_vars
    /\ ~consistent(dfas, conflicts, cong)
    /\ target' = target + 1
    /\ pc' = IF target + 1 \in state_indices(cong) THEN "try" ELSE "new"
    /\ UNCHANGED <<positive, negative, dfas, conflicts, cong, queue, source,
                   sym>>

\* Variant of Undo that passes over the next target.
UndoSkipping ==
    /\ pc = "check"
    /\ UNCHANGED lib_vars
    /\ ~consistent(dfas, conflicts, cong)
    /\ cong' = undo_add_edge(cong)
    /\ target' = target + 2
    /\ pc' = IF target + 2 \in state_indices(cong) THEN "try" ELSE "new"
    /\ UNCHANGED <<positive, negative, dfas, conflicts, queue, source, sym>>

\* conflicts.consistent(&cong) fails: cong.undo_add_edge(), next target.
Undo ==
    /\ pc = "check"
    /\ UNCHANGED lib_vars
    /\ ~consistent(dfas, conflicts, cong)
    /\ cong' = undo_add_edge(cong)
    /\ target' = target + 1
    /\ pc' = IF target + 1 \in state_indices(cong) THEN "try" ELSE "new"
    /\ UNCHANGED <<positive, negative, dfas, conflicts, queue, source, sym>>

\* Variant of NewState that puts the items of the new state at the front of
\* the queue.
NewStatePushFront ==
    /\ pc = "new"
    /\ UNCHANGED lib_vars
    /\ size(cong) < MaxStates
    /\ LET new_state_label == Append(state_color(cong, source), sym)
           new_state == size(cong)
       IN  /\ cong' = add_state(cong, new_state_label)
           /\ queue' = [i \in 1..Len(Sigma) |-> <<new_state, Sigma[i]>>] \o queue
    /\ pc' = "loop"
    /\ UNCHANGED <<positive, negative, dfas, conflicts, source, sym, target>>

\* No target was consistent: the new state, coloured with the colour of the
\* source followed by the symbol, and its items at the back of the queue.
NewState ==
    /\ pc = "new"
    /\ UNCHANGED lib_vars
    /\ size(cong) < MaxStates
    /\ LET new_state_label == Append(state_color(cong, source), sym)
           new_state == size(cong)
       IN  /\ cong' = add_state(cong, new_state_label)
           /\ queue' = queue \o [i \in 1..Len(Sigma) |-> <<new_state, Sigma[i]>>]
    /\ pc' = "loop"
    /\ UNCHANGED <<positive, negative, dfas, conflicts, source, sym, target>>

\* The queue is empty: omega_sprout returns cong.
Return ==
    /\ pc = "loop"
    /\ UNCHANGED lib_vars
    /\ queue = <<>>
    /\ pc' = "done"
    /\ UNCHANGED <<positive, negative, dfas, conflicts, cong, queue, source,
                   sym, target>>

Next ==
    \/ InsertWord
    \/ PrefixConsistencyConflicts
    \/ PrefixTreePanic
    \/ OmegaSprout
    \/ PopFront
    \/ AddEdge
    \/ Keep
    \/ Undo
    \/ NewState
    \/ Return

Spec == Init /\ [][Next]_vars

\* The steps of omega_sprout.
SproutStep ==
    OmegaSprout \/ PopFront \/ AddEdge \/ Keep \/ Undo \/ NewState \/ Return

\* omega_sprout runs on: a step of it that can be taken is taken.
FairSpec == Spec /\ WF_vars(SproutStep)

\* The state is well formed, and no prefix automaton was cut at the depth
\* bound.
TypeOK ==
    /\ pc \in {"sample", "panic", "sprout", "loop", "try", "check", "new",
               "done"}
    /\ positive \cap negative = {}
    /\ ~dfas[1].cut /\ ~dfas[2].cut
    /\ pc = "sample" => ~prefix_acceptor(positive).cut
                        /\ ~prefix_acceptor(negative).cut

\* ------------------------------------------------- DFA operations (steps)
\* left and right of tests::dfa_operations.
TestLeft ==
    [states  |-> 0..2,
     initial |-> 0,
     edges   |-> {<<0, "a", 1>>, <<1, "a", 2>>, <<2, "a", 0>>,
                  <<0, "b", 0>>, <<1, "b", 1>>, <<2, "b", 2>>},
     color   |-> [q \in 0..2 |-> q = 0]]

TestRight ==
    [states  |-> 0..1,
     initial |-> 0,
     edges   |-> {<<0, "a", 0>>, <<1, "a", 1>>, <<0, "b", 1>>, <<1, "b", 0>>},
     color   |-> [q \in 0..1 |-> q = 0]]

\* The learner does not run.
sprout_idle ==
    /\ positive = {} /\ negative = {}
    /\ dfas = <<NoTree, NoTree>>
    /\ conflicts = {}
    /\ cong = new_congruence
    /\ queue = <<>>
    /\ source = 0
    /\ sym = Sigma[1]
    /\ target = 0

\* Two DFAs: each the initial state alone, accepting or not, or the two DFAs
\* of the test.
DfaInit ==
    /\ sprout_idle
    /\ pc = "build"
    /\ ret = NoRet
    /\ \/ \E c1, c2 \in BOOLEAN : ts1 = new_dfa(c1) /\ ts2 = new_dfa(c2)
       \/ ts1 = TestLeft /\ ts2 = TestRight

\* add_state on self.
AddStateSelf ==
    /\ pc = "build"
    /\ Cardinality(ts1.states) < MaxDfaStates
    /\ \E color \in BOOLEAN : ts1' = dfa_add_state(ts1, color)
    /\ UNCHANGED <<sprout_vars, pc, ts2, ret>>

\* add_state on other.
AddStateOther ==
    /\ pc = "build"
    /\ Cardinality(ts2.states) < MaxDfaStates
    /\ \E color \in BOOLEAN : ts2' = dfa_add_state(ts2, color)
    /\ UNCHANGED <<sprout_vars, pc, ts1, ret>>

\* add_edge on self.
AddEdgeSelf ==
    /\ pc = "build"
    /\ Cardinality(ts1.edges) + Cardinality(ts2.edges) < MaxDfaEdges
    /\ \E from \in ts1.states, on \in Symbols, to \in ts1.states :
           /\ ~has_edge(ts1.edges, from, on)
           /\ ts1' = dfa_add_edge(ts1, from, on, to)
    /\ UNCHANGED <<sprout_vars, pc, ts2, ret>>

\* add_edge on other.
AddEdgeOther ==
    /\ pc = "build"
    /\ Cardinality(ts1.edges) + Cardinality(ts2.edges) < MaxDfaEdges
    /\ \E from \in ts2.states, on \in Symbols, to \in ts2.states :
           /\ ~has_edge(ts2.edges, from, on)
           /\ ts2' = dfa_add_edge(ts2, from, on, to)
    /\ UNCHANGED <<sprout_vars, pc, ts1, ret>>

\* self.union(other).
Union ==
    /\ pc = "build"
    /\ ret' = [op |-> "union", dfa |-> union(ts1, ts2)]
    /\ pc' = "ret"
    /\ UNCHANGED <<sprout_vars, ts1, ts2>>

\* self.intersection(other).
Intersection ==
    /\ pc = "build"
    /\ ret' = [op |-> "intersection", dfa |-> intersection(ts1, ts2)]
    /\ pc' = "ret"
    /\ UNCHANGED <<sprout_vars, ts1, ts2>>

\* self.negation().
Negation ==
    /\ pc = "build"
    /\ ret' = [op |-> "negation", dfa |-> negation(ts1)]
    /\ pc' = "ret"
    /\ UNCHANGED <<sprout_vars, ts1, ts2>>

\* self.equivalent(other).
Equivalent ==
    /\ pc = "build"
    /\ ret' = [op |-> "equivalent", value |-> equivalent(ts1, ts2)]
    /\ pc' = "ret"
    /\ UNCHANGED <<sprout_vars, ts1, ts2>>

DfaNext ==
    \/ AddStateSelf
    \/ AddStateOther
    \/ AddEdgeSelf
    \/ AddEdgeOther
    \/ Union
    \/ Intersection
    \/ Negation
    \/ Equivalent

DfaSpec == DfaInit /\ [][DfaNext]_vars

\* ------------------------------------------------------------ runs (steps)
\* The transition system of tests::basic_run_with_missing.
TestTs ==
    [states  |-> 0..2,
     initial |-> 0,
     edges   |-> {<<0, "a", 1>>, <<0, "b", 0>>, <<1, "a", 2>>, <<1, "b", 0>>,
                  <<2, "b", 0>>},
     color   |-> [q \in 0..2 |-> FALSE]]

\* A transition system with one state and no transition, or the one of the
\* test.  The colours and the initial state are not used by a run.
RunInit ==
    /\ sprout_idle
    /\ pc = "build"
    /\ ret = NoRet
    /\ ts1 \in {new_dfa(FALSE), TestTs}
    /\ ts2 = new_dfa(FALSE)

\* ts.add_state().
AddState ==
    /\ pc = "build"
    /\ Cardinality(ts1.states) < MaxRunStates
    /\ ts1' = dfa_add_state(ts1, FALSE)
    /\ UNCHANGED <<sprout_vars, pc, ts2, ret>>

\* ts.add_transition(from, on, to) while the transition system is built.
AddTransition ==
    /\ pc = "build"
    /\ \E from \in ts1.states, on \in Symbols, to \in ts1.states :
           /\ ~has_edge(ts1.edges, from, on)
           /\ ts1' = add_transition(ts1, from, on, to)
    /\ UNCHANGED <<sprout_vars, pc, ts2, ret>>

\* word.run_in_from(&ts, from) for a finite word; `walk` keeps what the
\* walker yields.
RunStr ==
    /\ pc = "build"
    /\ \E word \in SeqsUpTo(MaxWordLen), from \in ts1.states :
           ret' = [op |-> "run", word |-> word, from |-> from, ts |-> ts1,
                   walk |-> walk(ts1, from, word),
                   result |-> run_in_from(ts1, word, from)]
    /\ pc' = "ret"
    /\ UNCHANGED <<sprout_vars, ts1, ts2>>

\* After a run that ended at a missing transition: the missing transition is
\* added and the same word is run again from the same state.
AddMissing ==
    /\ pc = "ret"
    /\ ret.op \in {"run", "rerun"}
    /\ ret.result.tag = "Err"
    /\ \E to \in ts1.states :
           /\ ts1' = add_transition(ts1, ret.result.q, ret.result.a, to)
           /\ ret' = [op |-> "rerun", word |-> ret.word, from |-> ret.from,
                      ts |-> ts1', first |-> ret.result,
                      walk |-> walk(ts1', ret.from, ret.word),
                      result |-> run_in_from(ts1', ret.word, ret.from)]
    /\ UNCHANGED <<sprout_vars, pc, ts2>>

\* word.run_in_from(&ts, from) for an ultimately periodic word.
RunUpw ==
    /\ pc = "build"
    /\ \E base \in SeqsUpTo(MaxBaseLen), recur \in SeqsUpTo(MaxRecurLen) \ {<<>>},
          from \in ts1.states, kind \in Pieces :
           ret' = [op |-> "run_upw", word |-> upw(base, recur), from |-> from,
                   ts |-> ts1,
                   result |-> upw_run_in_from(ts1, upw(base, recur), from, kind)]
    /\ pc' = "ret"
    /\ UNCHANGED <<sprout_vars, ts1, ts2>>

RunNext ==
    \/ AddState
    \/ AddTransition
    \/ RunStr
    \/ AddMissing
    \/ RunUpw

RunSpec == RunInit /\ [][RunNext]_vars

\* ----------------------------------------------------- restriction (steps)
\* The DFA of tests::restrict_ts_by_state_index.
RestrictTestDfa ==
    [states  |-> 0..2,
     initial |-> 0,
     edges   |-> {<<0, "a", 1>>, <<0, "b", 0>>, <<1, "a", 2>>, <<1, "b", 1>>,
                  <<2, "a", 0>>, <<2, "b", 2>>},
     color   |-> [q \in 0..2 |-> q = 2]]

\* A DFA with the initial state alone, or the one of the test.
RestrictInit ==
    /\ sprout_idle
    /\ pc = "build"
    /\ ret = NoRet
    /\ \/ \E c \in BOOLEAN : ts1 = new_dfa(c)
       \/ ts1 = RestrictTestDfa
    /\ ts2 = new_dfa(FALSE)

\* dfa.restrict_state_indices(filter).
Restrict ==
    /\ pc = "build"
    /\ \E filter \in SUBSET ts1.states :
           LET r == restrict_state_indices(ts1, filter)
           IN  ret' = [op |-> "restrict", restricted |-> r,
                       state_indices |-> restricted_state_indices(r),
                       edges |-> restricted_edges(r),
                       initial |-> restricted_initial(r)]
    /\ pc' = "ret"
    /\ UNCHANGED <<sprout_vars, ts1, ts2>>

RestrictNext ==
    \/ AddStateSelf
    \/ AddEdgeSelf
    \/ Restrict

RestrictSpec == RestrictInit /\ [][RestrictNext]_vars

\* ------------------------------------------- consistency of congruences
\* A conflict relation of one of the fixed samples, and the congruence that
\* RightCongruence::new gives; the learner's loop does not run.
EditInit ==
    /\ \/ positive = EndToEndPositive /\ negative = EndToEndNegative
       \/ positive = TestPositive /\ negative = TestNegative
       \/ positive = TwoCyclePositive /\ negative = TwoCycleNegative
       \/ positive = SecondTargetPositive /\ negative = SecondTargetNegative
    /\ pc = "edit"
    /\ dfas = <<prefix_acceptor(positive), prefix_acceptor(negative)>>
    /\ conflicts = conflict_pairs(dfas[1], dfas[2])
    /\ cong = new_congruence
    /\ queue = <<>>
    /\ source = 0
    /\ sym = Sigma[1]
    /\ target = 0
    /\ ts1 = new_dfa(FALSE)
    /\ ts2 = new_dfa(FALSE)
    /\ ret = NoRet

\* cong.add_edge(from, on, to) between any two states of the congruence.
EditAddEdge ==
    /\ pc = "edit"
    /\ Len(cong.edges) < MaxEditEdges
    /\ \E from \in state_indices(cong), on \in Symbols,
          to \in state_indices(cong) :
           cong' = add_edge(cong, from, on, to)
    /\ UNCHANGED <<positive, negative, pc, dfas, conflicts, queue, source,
                   sym, target, lib_vars>>

\* cong.add_state(label), the label extending the label of the last state
\* by the first symbol of the alphabet.
EditAddState ==
    /\ pc = "edit"
    /\ size(cong) < MaxEditStates
    /\ cong' = add_state(cong, Append(state_color(cong, size(cong) - 1),
                                      Sigma[1]))
    /\ UNCHANGED <<positive, negative, pc, dfas, conflicts, queue, source,
                   sym, target, lib_vars>>

\* cong.undo_add_edge().
EditUndo ==
    /\ pc = "edit"
    /\ cong.edges # <<>>
    /\ cong' = undo_add_edge(cong)
    /\ UNCHANGED <<positive, negative, pc, dfas, conflicts, queue, source,
                   sym, target, lib_vars>>

EditNext ==
    \/ EditAddEdge
    \/ EditAddState
    \/ EditUndo

EditSpec == EditInit /\ [][EditNext]_vars

\* ------------------------------------- Deterministic: growing, shrinking
\* Deterministic::new: no state, no edge.
new_deterministic == [states |-> {}, edges |-> {}]

\* Growable::add_state inserts the state into the set of states; the result
\* tells whether the state was new.
det_add_state(d, state) == [d EXCEPT !.states = @ \cup {state}]

\* Shrinkable::remove_state takes the state out of the set of states and
\* leaves the edges alone.
det_remove_state(d, state) == [d EXCEPT !.states = @ \ {state}]

\* The identifier AnonymousGrowable::add_new_state picks: the number of
\* states.
new_id(d) == Cardinality(d.states)

\* The result of add_state, remove_state or add_new_state.
Returned(op, value) == [op |-> op, value |-> value]

\* An empty Deterministic transition system; the learner does not run.
GrowInit ==
    /\ sprout_idle
    /\ pc = "grow"
    /\ ts1 = new_deterministic
    /\ ts2 = new_dfa(FALSE)
    /\ ret = NoRet

\* ts.add_state(&state).
GrowAddState ==
    /\ pc = "grow"
    /\ \E state \in 0..MaxStateId :
        /\ ts1' = det_add_state(ts1, state)
        /\ ret' = Returned("add_state", state \notin ts1.states)
    /\ UNCHANGED <<sprout_vars, pc, ts2>>

\* ts.remove_state(state).
GrowRemoveState ==
    /\ pc = "grow"
    /\ \E state \in 0..MaxStateId :
        /\ ts1' = det_remove_state(ts1, state)
        /\ ret' = Returned("remove_state", state \in ts1.states)
    /\ UNCHANGED <<sprout_vars, pc, ts2>>

\* ts.add_new_state(): the identifier is the number of states, and the call
\* panics when add_state reports that the identifier is a state already.
GrowAddNewState ==
    /\ pc = "grow"
    /\ new_id(ts1) <= MaxStateId
    /\ IF new_id(ts1) \notin ts1.states
       THEN /\ ts1' = det_add_state(ts1, new_id(ts1))
            /\ ret' = Returned("add_new_state", new_id(ts1))
            /\ pc' = pc
       ELSE /\ ts1' = ts1
            /\ ret' = Panic
            /\ pc' = "panic"
    /\ UNCHANGED <<sprout_vars, ts2>>

GrowNext ==
    \/ GrowAddState
    \/ GrowRemoveState
    \/ GrowAddNewState

GrowSpec == GrowInit /\ [][GrowNext]_vars

\* --------------------------------------------------------------- claims
\* The number of edges of the congruence that leave q on a.
out_edges(c, q, a) ==
    Cardinality({i \in 1..Len(c.edges) : c.edges[i][1] = q /\ c.edges[i][2] = a})

\* C1 (sprout totality): in the congruence that omega_sprout returns, every
\* state has exactly one outgoing edge for every symbol of the alphabet, the
\* pairs resolved by a new state included.
SproutTotality ==
    pc = "done" =>
        \A q \in state_indices(cong), a \in Symbols : out_edges(cong, q, a) = 1

\* C2 (sprout consistency): the congruence that omega_sprout returns is
\* consistent with the conflict relation it was given.
SproutConsistency == pc = "done" => consistent(dfas, conflicts, cong)

\* omega_sprout has returned a congruence with a state it created, for a
\* conflict relation that has conflicts.
SproutConsistencyWitness ==
    pc = "done" /\ conflicts # {} /\ size(cong) > 1 /\ Len(cong.edges) > 1

StatesBoundOnlyOnInitialConflict ==
    (pc = "new" /\ size(cong) >= MaxStates) =>
        /\ <<(<<>>), <<>>>> \in conflicts
        /\ ~consistent(dfas, conflicts, new_congruence)

\* ts.reached_color(word): the colour of the state that the word reaches from
\* the initial state, if the word has a run.
reached_color(c, u) ==
    IF has_run(cong_edges(c), 0, u)
    THEN Some(state_color(c, reached(cong_edges(c), 0, u)))
    ELSE None

\* expected_cong of tests::prefix_consistency_sprout.
expected_cong ==
    [colors |-> <<(<<>>), <<"a">>>>,
     edges  |-> <<(<<0, "a", 1>>), <<1, "a", 0>>, <<0, "b", 0>>, <<1, "b", 1>>>>]

\* The words that the test runs: aba, abbabb, baabaaba, bababaaba, b, a and
\* the empty word.
ExampleWords ==
    {<<"a", "b", "a">>, <<"a", "b", "b", "a", "b", "b">>,
     <<"b", "a", "a", "b", "a", "a", "b", "a">>,
     <<"b", "a", "b", "a", "b", "a", "a", "b", "a">>, <<"b">>, <<"a">>, <<>>}

\* The outcome of the example: the run has returned the expected congruence.
ExampleOutcome ==
    /\ pc = "done"
    /\ size(cong) = size(expected_cong)
    /\ cong.colors = expected_cong.colors
    /\ cong_edges(cong) = cong_edges(expected_cong)
    /\ \A word \in ExampleWords :
           reached_color(cong, word) = reached_color(expected_cong, word)

\* C4 (end-to-end example): on the sample with the positive words b^w,
\* (abab)^w, (abbab)^w and the negative words a.b^w, a^w the computation ends
\* by returning the congruence with the two states [], [a] and the edges
\* 0-a->1, 1-a->0, 0-b->0, 1-b->1, on which the words of the test reach the
\* expected colours.
EndToEndExample ==
    (/\ \/ positive = EndToEndPositive /\ negative = EndToEndNegative
        \/ positive = TestPositive /\ negative = TestNegative
     /\ pc \in {"panic", "done"}) => ExampleOutcome

\* Both prefix automata have been built.
Built == pc \notin {"sample", "panic"}

\* The prefix automata of the conflict relation.
left_pta == dfas[1]

right_pta == dfas[2]

\* C5 (prefix-tree coverage): every prefix of the periodic expansion of every
\* word of a set has a run from the empty Class in the prefix automaton of
\* the set and is accepted.
PrefixTreeCoverage ==
    Built =>
        \A n \in 0..MaxLen :
            /\ \A w \in positive : accepts(left_pta, PrefixOf(w, n))
            /\ \A w \in negative : accepts(right_pta, PrefixOf(w, n))

\* C6 (prefix-tree exactness): a finite word that is a prefix of no word of
\* a non-empty set has no complete run in the prefix automaton of the set.
PrefixTreeExactness ==
    Built =>
        \A u \in SeqsUpTo(MaxLen) :
            /\ (positive # {} /\ accepts(left_pta, u)) =>
                   \E w \in positive : has_prefix(w, u)
            /\ (negative # {} /\ accepts(right_pta, u)) =>
                   \E w \in negative : has_prefix(w, u)

\* The pair t of prefix-automaton states is reached from the pair s by the
\* joint run of a non-empty word.
joint_path(s, t) ==
    \E u \in SeqsUpTo(MaxLen) \ {<<>>} :
        /\ has_run(left_pta.edges, s[1], u)
        /\ has_run(right_pta.edges, s[2], u)
        /\ reached(left_pta.edges, s[1], u) = t[1]
        /\ reached(right_pta.edges, s[2], u) = t[2]

\* The pair lies on a cycle of the product of the two prefix automata.
on_cycle(s) == joint_path(s, s)

\* The pairs of the product of the two prefix automata.
tree_product == product(left_pta.edges, <<>>, right_pta.edges, <<>>)

\* C7 (conflict soundness): every conflict pair is a state of the product of
\* the two prefix automata that lies on a cycle, that is a state of a
\* component with more than one state or with a self-loop.
ConflictSoundness ==
    Built => \A c \in conflicts : c \in tree_product.states /\ on_cycle(c)

\* There are conflicts, and the product has a state that is on no cycle.
ConflictSoundnessWitness ==
    /\ Built
    /\ conflicts # {}
    /\ \E s \in tree_product.states : ~on_cycle(s)

\* C8 (conflict completeness): every state of a component with more than one
\* state is a conflict pair, and a pair made of the positive part of one
\* member and the negative part of another is a conflict pair only if it
\* lies on a cycle itself.
ConflictCompleteness ==
    Built =>
        \A s, t \in tree_product.states :
            (s # t /\ joint_path(s, t) /\ joint_path(t, s)) =>
                /\ s \in conflicts
                /\ <<s[1], t[2]>> \in conflicts =>
                       (<<s[1], t[2]>> \in tree_product.states
                        /\ on_cycle(<<s[1], t[2]>>))

\* The product has a component with two states whose mixed pair is no
\* conflict pair.
ConflictCompletenessWitness ==
    /\ Built
    /\ \E s, t \in tree_product.states :
           /\ s # t /\ joint_path(s, t) /\ joint_path(t, s)
           /\ s \in conflicts
           /\ <<s[1], t[2]>> \notin conflicts

\* omega_sprout is running or has returned: cong is its congruence.
InSprout == pc \in {"loop", "try", "check", "new", "done"}

\* The pairs that the joint run of a word of length at most k reaches from
\* the pair <<i1, i2>> in two edge sets.
RECURSIVE pairs_within(_, _, _, _, _)
pairs_within(E1, i1, E2, i2, k) ==
    IF k = 0 THEN {<<i1, i2>>}
    ELSE LET R == pairs_within(E1, i1, E2, i2, k - 1)
         IN  R \cup UNION {{<<target_of(E1, s[1], a), target_of(E2, s[2], a)>> :
                              a \in {x \in Symbols : /\ has_edge(E1, s[1], x)
                                                     /\ has_edge(E2, s[2], x)}} :
                           s \in R}

\* The states of the prefix automaton `pta` that occur in a pair reachable
\* from the initial pair in the product of the congruence c and `pta`.
tree_states_reached(c, pta) ==
    {s[2] : s \in pairs_within(cong_edges(c), 0, pta.edges, <<>>,
                               size(c) * Cardinality(pta.states))}

\* C9 (consistency predicate): consistent(c) is false exactly if some
\* conflict pair (p, n) has p among the positive-automaton states reached
\* with c and n among the negative-automaton states reached with c.
ConsistencyPredicate ==
    InSprout =>
        (~consistent(dfas, conflicts, cong) <=>
            \E c \in conflicts :
                /\ c[1] \in tree_states_reached(cong, left_pta)
                /\ c[2] \in tree_states_reached(cong, right_pta))

\* A tentative edge that consistent rejects, in a congruence that already
\* has a kept edge.
ConsistencyPredicateWitness ==
    /\ pc = "check"
    /\ Len(cong.edges) > 1
    /\ ~consistent(dfas, conflicts, cong)

\* The triples that the joint run of a word of length at most k reaches from
\* the initial states of the congruence c and of the two prefix automata.
RECURSIVE triples_within(_, _)
triples_within(c, k) ==
    IF k = 0 THEN {<<0, <<>>, <<>>>>}
    ELSE LET R == triples_within(c, k - 1)
         IN  R \cup UNION {{<<target_of(cong_edges(c), t[1], a),
                              target_of(left_pta.edges, t[2], a),
                              target_of(right_pta.edges, t[3], a)>> :
                              a \in {x \in Symbols :
                                        /\ has_edge(cong_edges(c), t[1], x)
                                        /\ has_edge(left_pta.edges, t[2], x)
                                        /\ has_edge(right_pta.edges, t[3], x)}} :
                           t \in R}

\* Some finite word runs jointly to a conflict pair.
joint_conflict(c) ==
    \E t \in triples_within(c, size(c) * Cardinality(left_pta.states)
                                  * Cardinality(right_pta.states)) :
        <<t[2], t[3]>> \in conflicts

\* C10 (the check is conservative): whenever consistent(c) holds, no finite
\* word runs jointly in c and the two prefix automata to a conflict pair.
ConsistentIsConservative ==
    InSprout => (consistent(dfas, conflicts, cong) => ~joint_conflict(cong))

\* consistent accepts a tentative edge although there are conflicts.
ConsistentIsConservativeWitness ==
    /\ pc = "check"
    /\ conflicts # {}
    /\ Len(cong.edges) > 1
    /\ consistent(dfas, conflicts, cong)


\* What a step of omega_sprout can leave behind: the position, the popped
\* item, the inner-loop target, the queue and the congruence's last edge and
\* last colour, each reduced to a value of a small set.
step_pcs == {"loop", "try", "check", "new", "done"}

step_items == (0..MaxStates) \X Symbols

step_lengths == 0..(MaxStates * Len(Sigma) + 1)

last_edge(c) == IF c.edges = <<>> THEN <<>> ELSE c.edges[Len(c.edges)]

queue_head(q) == IF q = <<>> THEN <<>> ELSE Head(q)

queue_last(q) == IF q = <<>> THEN <<>> ELSE q[Len(q)]

trivial_cong ==
    [colors |-> <<(<<>>)>>,
     edges  |-> [i \in 1..Len(Sigma) |-> <<0, Sigma[i], 0>>]]

\* C12 (boundary): with an empty positive or an empty negative set the
\* conflict computation does not fail and yields no conflict, and
\* omega_sprout creates no state and returns the single state 0 with a
\* self-loop on every symbol.
EmptySideBoundary ==
    (positive = {} \/ negative = {}) =>
        /\ pc \notin {"panic", "new"}
        /\ Built => conflicts = {}
        /\ pc = "done" => cong = trivial_cong

\* C13 (empty word set): the prefix automaton of the empty set has the one
\* state [] and no edge, and building it does not fail.
EmptySetPrefixTree ==
    \A set \in {positive, negative} :
        set = {} =>
            LET pta == prefix_acceptor(set)
            IN  /\ pta.states = {<<>>}
                /\ pta.edges = {}
                /\ ~pta.panics
                /\ ~pta.cut

\* The prefix automaton of an empty positive set, built beside that of a
\* non-empty negative set.
EmptySetPrefixTreeWitness ==
    /\ Built
    /\ positive = {}
    /\ negative # {}
    /\ left_pta.states = {<<>>}
    /\ right_pta.states # {<<>>}

sink == 0 - 1

complete_edges(d) ==
    d.edges \cup {<<p[1], p[2], sink>> :
                     p \in {x \in (d.states \cup {sink}) \X Symbols :
                               ~has_edge(d.edges, x[1], x[2])}}

accepting(d, q) == q # sink /\ d.color[q]

\* The two DFAs accept the same finite words: no pair of states that some
\* word reaches in the two completed DFAs has one accepting and one
\* rejecting component.
same_language(d1, d2) ==
    \A s \in pairs_within(complete_edges(d1), d1.initial,
                          complete_edges(d2), d2.initial,
                          (Cardinality(d1.states) + 1) * (Cardinality(d2.states) + 1)) :
        accepting(d1, s[1]) <=> accepting(d2, s[2])

\* C15 (equivalent): equivalent(self, other) is true exactly if self and
\* other accept the same finite words.
EquivalentIffSameLanguage ==
    ret.op = "equivalent" => (ret.value <=> same_language(ts1, ts2))

\* C16 (union and intersection): the union accepts a word exactly if self or
\* other accepts it, the intersection exactly if both accept it.
UnionIntersectionLanguage ==
    /\ ret.op = "union" =>
           \A w \in SeqsUpTo(MaxLen) :
               accepts_finite(ret.dfa, w) <=>
                   (accepts_finite(ts1, w) \/ accepts_finite(ts2, w))
    /\ ret.op = "intersection" =>
           \A w \in SeqsUpTo(MaxLen) :
               accepts_finite(ret.dfa, w) <=>
                   (accepts_finite(ts1, w) /\ accepts_finite(ts2, w))

\* C17 (negation): the negation accepts a word exactly if the DFA does not
\* accept it.
NegationLanguage ==
    ret.op = "negation" =>
        \A w \in SeqsUpTo(MaxLen) :
            accepts_finite(ret.dfa, w) <=> ~accepts_finite(ts1, w)

\* The length of the longest prefix of the word that has a run from q.
runnable_length(d, q, w) == Len(run_from(d.edges, q, w)) - 1

\* C18: a run of a finite word w from q yields one transition per consumed
\* symbol, in word order, and ends with the state reached after all of w
\* or, at the first missing transition, with the escape (u, q', a): u is the
\* longest prefix of w that can be run, q' is the state u reaches and q' has
\* no transition on a.  The run does not change the transition system, and
\* the run after the missing transition was added gets past that point.
FiniteRunContract ==
    ret.op \in {"run", "rerun"} =>
        LET w == ret.word
            visited == run_from(ts1.edges, ret.from, w)
            k == runnable_length(ts1, ret.from, w)
            r == ret.result
        IN  /\ ts1 = ret.ts
            /\ Len(ret.walk) = k + 1
            /\ \A i \in 1..k :
                   ret.walk[i] = Transition(visited[i], w[i], visited[i + 1])
            /\ k = Len(w) =>
                   /\ ret.walk[k + 1] = WordEnd(visited[k + 1])
                   /\ r = Ok(visited[k + 1])
            /\ k < Len(w) =>
                   /\ ret.walk[k + 1] = Missing(visited[k + 1], w[k + 1])
                   /\ r.tag = "Err"
                   /\ r.path = SubSeq(ret.walk, 1, k)
                   /\ r.q = visited[k + 1]
                   /\ r.a = w[k + 1]
                   /\ ~has_edge(ts1.edges, r.q, r.a)
                   /\ r.suffix = SubSeq(w, k + 1, Len(w))
            /\ ret.op = "rerun" =>
                   \/ r.tag = "Ok"
                   \/ Len(r.path) > Len(ret.first.path)

\* A word that stopped after two transitions has a complete run once the
\* missing transition is added.
FiniteRunContractWitness ==
    /\ ret.op = "rerun"
    /\ Len(ret.first.path) = 2
    /\ ret.result.tag = "Ok"

\* The state reached from c by n periods.
RECURSIVE after_periods(_, _, _, _)
after_periods(d, c, recur, n) ==
    IF n = 0 THEN c
    ELSE after_periods(d, reached(d.edges, c, recur), recur, n - 1)

\* The transitions that the run of base . recur^omega from q takes infinitely
\* often, for a run without missing transition: the transitions of a period
\* that starts in a state to which the run returns after some periods.
infinity_set(d, w, q) ==
    LET c0 == reached(d.edges, q, w.base)
        N == Cardinality(d.states)
        starts == {after_periods(d, c0, w.recur, n) : n \in 0..N}
        recurrent == {c \in starts :
                         \E n \in 1..N : after_periods(d, c, w.recur, n) = c}
        period(c) == LET visited == run_from(d.edges, c, w.recur)
                     IN  {<<visited[i], w.recur[i], visited[i + 1]>> :
                             i \in 1..Len(w.recur)}
    IN  UNION {period(c) : c \in recurrent}

\* C19: the run of an ultimately periodic word terminates, and without a
\* missing transition it returns exactly the transitions that the infinite
\* run takes infinitely often.
UpwRunInfinitySet ==
    ret.op = "run_upw" =>
        /\ ret.result.tag # "Running"
        /\ ret.result.tag = "Ok" =>
               ret.result.v = infinity_set(ts1, ret.word, ret.from)

\* C20: in a restriction by a state-index filter, state_indices are the
\* indices that pass the filter, no edge leads to a state that does not
\* pass, no run from the initial state visits such a state, a word whose run
\* in the unrestricted system visits such a state is not accepted, and
\* initial() fails its assertion when the initial state does not pass.
RestrictionSafety ==
    ret.op = "restrict" =>
        LET r == ret.restricted
            f == r.filter
        IN  /\ ret.state_indices = ts1.states \cap f
            /\ \A edge \in ret.edges : edge[3] \in f
            /\ ts1.initial \notin f <=> ret.initial = Panic
            /\ ret.initial # Panic =>
                   \A w \in SeqsUpTo(MaxLen) :
                       LET visited == run_from(ret.edges, ret.initial.q, w)
                       IN  \A i \in 1..Len(visited) : visited[i] \in f
            /\ \A w \in SeqsUpTo(MaxLen) :
                   LET visited == run_from(ts1.edges, ts1.initial, w)
                   IN  (\E i \in 1..Len(visited) : visited[i] \notin f)
                           => restricted_accepts(r, w) # Some(TRUE)

\* The test: the word aa is accepted by the DFA and not by its restriction
\* to the states other than q2; the initial state passes the filter.
RestrictionSafetyWitness ==
    /\ ret.op = "restrict"
    /\ ts1 = RestrictTestDfa
    /\ ret.restricted.filter = {0, 1}
    /\ accepts_finite(ts1, <<"a", "a">>)
    /\ restricted_accepts(ret.restricted, <<"a", "a">>) = Some(FALSE)

\* C21: when no existing target was consistent for the popped item
\* (source, sym), the step gives the congruence exactly one more state and the
\* edge from source on sym to that state.
NewStateResolvesItem ==
    [][NewState =>
          /\ size(cong') = size(cong) + 1
          /\ out_edges(cong', source, sym) = 1
          /\ \E i \in 1..Len(cong'.edges) :
                 cong'.edges[i] = <<source, sym, size(cong)>>]_vars

\* The congruence with the new state for the item (source, sym) and the edge
\* from source on sym to it.
connected_new_state(c, q, a) ==
    add_edge(add_state(c, Append(state_color(c, q), a)), q, a, size(c))

LowestIndexPreference ==
    /\ pc = "check" =>
           /\ last_edge(cong) = <<source, sym, target>>
           /\ \A t \in 0..(target - 1) :
                  ~consistent(dfas, conflicts,
                              add_edge(undo_add_edge(cong), source, sym, t))
    /\ pc = "new" =>
           \A t \in state_indices(cong) :
               ~consistent(dfas, conflicts, add_edge(cong, source, sym, t))

\* An edge to the second state is kept after the first state was rejected.
LowestIndexPreferenceWitness ==
    /\ pc = "check"
    /\ target = 1
    /\ consistent(dfas, conflicts, cong)

\* The items in the queue, the item being processed and the items resolved
\* by a kept edge (the tentative edge under check is not kept yet).
queued == {queue[i] : i \in 1..Len(queue)}

processed == IF pc \in {"try", "check", "new"} THEN {<<source, sym>>} ELSE {}

kept_edges == IF pc = "check" THEN undo_add_edge(cong).edges ELSE cong.edges

resolved == {<<kept_edges[i][1], kept_edges[i][2]>> : i \in 1..Len(kept_edges)}

\* C24: every obligation (state, symbol) is queued once and resolved once:
\* while omega_sprout runs, the pairs of a state of the congruence and a
\* symbol are the disjoint union of the resolved pairs, the queued pairs and
\* the pair being processed.
ObligationsPartition ==
    pc \in {"loop", "try", "check", "new", "done"} =>
        /\ Cardinality(queued) = Len(queue)
        /\ Cardinality(resolved) = Len(kept_edges)
        /\ queued \cap resolved = {}
        /\ processed \cap (queued \cup resolved) = {}
        /\ queued \cup resolved \cup processed = state_indices(cong) \X Symbols

\* The place of an item in the order of creation: by state index, then by
\* the position of the symbol in the alphabet.
item_index(item) ==
    item[1] * Len(Sigma) + (CHOOSE i \in 1..Len(Sigma) : Sigma[i] = item[2]) - 1

\* C25: the queue is first-in first-out: it holds the items that are not
\* popped yet in the order of their creation (by state index, then in the
\* order of the alphabet), starting with the items of state 0, and the item
\* being processed is the one created just before the front of the queue.
FifoOrder ==
    pc \in {"loop", "try", "check", "new", "done"} =>
        LET popped == size(cong) * Len(Sigma) - Len(queue)
        IN  /\ \A i \in 1..Len(queue) : item_index(queue[i]) = popped + i - 1
            /\ pc \in {"try", "check", "new"} =>
                   item_index(<<source, sym>>) = popped - 1

\* The second item of a created state is processed while items of a later
\* state wait.
FifoOrderWitness ==
    /\ pc = "try"
    /\ source = 1
    /\ sym = Sigma[2]
    /\ \E i \in 1..Len(queue) : queue[i][1] > 1

\* C26: undo restores the congruence.  The tentative edge is the only edge
\* of (source, sym) while it is checked; when the next target is tried, or
\* the state is created, (source, sym) has no edge; no pair ever has two
\* edges; and the step that undoes a rejected edge leaves the states, the
\* labels and the edges that were there before the edge was added.
UndoRestores ==
    /\ [](pc \in {"try", "new"} => out_edges(cong, source, sym) = 0)
    /\ [](pc = "check" => out_edges(cong, source, sym) = 1)
    /\ [](\A q \in state_indices(cong), a \in Symbols : out_edges(cong, q, a) <= 1)
    /\ [][/\ AddEdge => cong' = add_edge(cong, source, sym, target)
          /\ Undo => /\ cong = add_edge(cong', source, sym, target)
                     /\ cong'.colors = cong.colors]_vars

\* A second target is tried after the first one was undone.
UndoRestoresWitness ==
    /\ pc = "try"
    /\ target = 1
    /\ source = 0
    /\ cong.edges = <<>>

\* C27: every tentative add_edge is followed by exactly one of keep or undo
\* before the congruence is changed again; undo_add_edge is only called with
\* the tentative edge pending; and at most one edge is unconfirmed: outside
\* the check every edge of the congruence has passed the check.
TentativeEdgeDiscipline ==
    /\ [](pc \in {"loop", "try", "new", "done"} /\ cong.edges # <<>>
              => consistent(dfas, conflicts, cong))
    /\ [](pc = "check" /\ Len(cong.edges) > 1
              => consistent(dfas, conflicts, undo_add_edge(cong)))
    /\ [][/\ AddEdge => pc' = "check"
          /\ pc = "check" => /\ Keep \/ Undo
                             /\ ~(Keep /\ Undo)
                             /\ pc' # "check"
          /\ cong' # cong /\ ~AddEdge /\ ~Undo => pc # "check"
          /\ Undo => /\ pc = "check"
                     /\ last_edge(cong) = <<source, sym, target>>]_vars

\* A tentative edge is rejected while the congruence holds a kept edge.
TentativeEdgeDisciplineWitness ==
    /\ pc = "check"
    /\ Len(cong.edges) > 1
    /\ ~consistent(dfas, conflicts, cong)

\* C28: the congruence starts with the state 0 alone, labelled with the
\* empty Class; the state created when there are k states gets the index k
\* and the label of the source followed by the symbol of the item; no state
\* is removed or relabelled.
StateNumbering ==
    /\ [](pc \in {"loop", "try", "check", "new", "done"} =>
              /\ size(cong) >= 1
              /\ state_color(cong, 0) = <<>>
              /\ \A k \in 1..(size(cong) - 1) :
                     \E p \in 0..(k - 1), a \in Symbols :
                         state_color(cong, k) = Append(state_color(cong, p), a))
    /\ [][/\ OmegaSprout => cong'.colors = <<(<<>>)>>
          /\ NewState =>
                 /\ size(cong') = size(cong) + 1
                 /\ state_color(cong', size(cong))
                        = Append(state_color(cong, source), sym)
                 /\ \A q \in state_indices(cong) :
                        state_color(cong', q) = state_color(cong, q)
          /\ ~OmegaSprout /\ ~NewState => cong'.colors = cong.colors]_vars

\* A state created for an item of a state other than the initial one.
StateNumberingWitness ==
    /\ pc = "loop"
    /\ \E k \in state_indices(cong) : Len(state_color(cong, k)) = 2

\* The words of the set whose periodic expansion starts with the Class c.
words_starting_with(set, c) == {w \in set : PrefixOf(w, Len(c)) = c}

\* The successor rule: absent when no word starts with the candidate; the
\* candidate when more than one word does; for a single word the candidate
\* without its last recur_length symbols when exactly one word of the set
\* starts with that, and the candidate otherwise.
successor_rule(set, c, a) ==
    LET candidate == c \o <<a>>
        W == words_starting_with(set, candidate)
    IN  IF W = {} THEN None
        ELSE IF Cardinality(W) > 1 THEN Some(candidate)
        ELSE LET w == CHOOSE v \in W : TRUE
                 base == SubSeq(candidate, 1, Len(candidate) - recur_length(w))
             IN  IF Cardinality(words_starting_with(set, base)) = 1
                 THEN Some(base)
                 ELSE Some(candidate)

\* C29: Prefixes::successor follows the successor rule for every Class and
\* every symbol, on both sides of the sample.
SuccessorRule ==
    \A set \in {positive, negative}, c \in SeqsUpTo(MaxLen), a \in Symbols :
        successor(set, c, a) = successor_rule(set, c, a)

\* The calls of Prefixes::successor on a state of the prefix tree of the set
\* in which exactly one word has the candidate as a prefix and the candidate is
\* at least as long as the period of that word.
single_word_calls(set) ==
    {c \in prefix_acceptor(set).states \X Symbols :
        LET W == find_words_with_prefix(set, Append(c[1], c[2]))
        IN  /\ Cardinality(W) = 1
            /\ \A w \in W : Len(c[1]) + 1 >= recur_length(w)}

\* The base of a single-word call: the candidate without the last
\* recur_length symbols of its word.
base_of(set, c) ==
    LET candidate == Append(c[1], c[2])
        word == CHOOSE w \in find_words_with_prefix(set, candidate) : TRUE
    IN  SubSeq(candidate, 1, Len(candidate) - recur_length(word))

\* C30: in the single-word case at least one word of the set has base as a
\* prefix, for every state of the prefix tree and every symbol: the list of
\* words with prefix base is never empty and the successor is never absent.
BaseListNonEmpty ==
    \A set \in {positive, negative} : \A c \in single_word_calls(set) :
        /\ find_words_with_prefix(set, base_of(set, c)) # {}
        /\ successor(set, c[1], c[2]).tag = "Some"

\* A single-word call on a state other than the initial one whose base is
\* shared by several words, in a sample whose prefix trees have been built.
BaseListNonEmptyWitness ==
    /\ Built
    /\ \E set \in {positive, negative} : \E c \in single_word_calls(set) :
        /\ base_of(set, c) # <<>>
        /\ Cardinality(find_words_with_prefix(set, base_of(set, c))) > 1

\* The calls of Prefixes::successor on a state of the prefix tree of the set
\* in which exactly one word has the candidate as a prefix.
one_word_calls(set) ==
    {c \in prefix_acceptor(set).states \X Symbols :
        Cardinality(find_words_with_prefix(set, Append(c[1], c[2]))) = 1}

\* C31: whenever exactly one word has the candidate as a prefix, the candidate
\* is at least as long as the period of that word, so the subtraction
\* successor.length() - word.recur_length() does not underflow and the
\* successor is not the Overflow outcome.
TruncationDefined ==
    \A set \in {positive, negative} : \A c \in one_word_calls(set) :
        /\ \A w \in find_words_with_prefix(set, Append(c[1], c[2])) :
               Len(c[1]) + 1 >= recur_length(w)
        /\ successor(set, c[1], c[2]) # Overflow

\* C32: the pair of the roots of the two prefix trees is not a conflict pair,
\* so the one-state congruence without edges is consistent, and the
\* congruence is consistent at the start of every iteration of the loop of
\* omega_sprout.
RootsNeverConflict ==
    Built =>
        /\ <<(<<>>), (<<>>)>> \notin conflicts
        /\ consistent(dfas, conflicts, new_congruence)
        /\ pc = "loop" => consistent(dfas, conflicts, cong)

\* The congruence without the i-th edge of its edge list.
without_edge(c, i) ==
    [c EXCEPT !.edges = SubSeq(@, 1, i - 1) \o SubSeq(@, i + 1, Len(@))]

\* The congruence has at most one edge per state and symbol.
deterministic(c) ==
    \A q \in state_indices(c), a \in Symbols : out_edges(c, q, a) <= 1

\* C33: consistency is anti-monotone in the edges.  A congruence that is not
\* consistent stays so when an edge or a state is added; the congruence
\* before the last edge of a consistent congruence is consistent, and so is a
\* consistent deterministic congruence without any one of its edges.
ConsistencyAntiMonotone ==
    /\ [](pc = "edit" /\ deterministic(cong)
                      /\ consistent(dfas, conflicts, cong) =>
            \A i \in 1..Len(cong.edges) :
                consistent(dfas, conflicts, without_edge(cong, i)))
    /\ [][/\ EditAddEdge \/ EditAddState =>
                 (~consistent(dfas, conflicts, cong) =>
                      ~consistent(dfas, conflicts, cong'))
          /\ EditUndo =>
                 (consistent(dfas, conflicts, cong) =>
                      consistent(dfas, conflicts, cong'))]_vars

\* An edge has been added to a congruence that was not consistent, and the
\* added edge is the only one of its state and symbol.
ConsistencyAntiMonotoneWitness ==
    /\ pc = "edit"
    /\ Len(cong.edges) >= 2
    /\ ~consistent(dfas, conflicts, undo_add_edge(cong))
    /\ consistent(dfas, conflicts, new_congruence)
    /\ deterministic(cong)

\* The state labels of the congruence are pairwise distinct.
distinct_labels(c) ==
    \A p, q \in state_indices(c) :
        state_color(c, p) = state_color(c, q) => p = q

\* The run of the label of q from the initial state ends in q.
label_reaches(c, q) ==
    /\ has_run(cong_edges(c), 0, state_color(c, q))
    /\ reached(cong_edges(c), 0, state_color(c, q)) = q

\* C34: in the congruence that omega_sprout returns the state labels are
\* pairwise distinct and every state is reached from state 0 by the run of
\* its label.
LabelsReachStates ==
    pc = "done" =>
        /\ distinct_labels(cong)
        /\ \A q \in state_indices(cong) : label_reaches(cong, q)

\* The Class c is a finite prefix of the periodic expansion of a word of the
\* set.
prefix_of_some_word(set, c) == \E w \in set : PrefixOf(w, Len(c)) = c

\* C35 as stated: every state of the prefix automaton built from a word set
\* is a finite prefix of the periodic expansion of some word of the set.
StatesArePrefixes ==
    \A set \in {positive, negative} :
        \A q \in prefix_acceptor(set).states : prefix_of_some_word(set, q)

\* C35, amended: every state of the prefix automaton built from a non-empty
\* word set is a finite prefix of the periodic expansion of some word of the
\* set, and the automaton built from the empty set has the empty Class as its
\* only state.
StatesArePrefixesOrRoot ==
    \A set \in {positive, negative} :
        \A q \in prefix_acceptor(set).states :
            IF set = {} THEN q = <<>> ELSE prefix_of_some_word(set, q)

\* Both prefix automata are built from non-empty sets, and one of them has a
\* state reached as a candidate from a state other than the root and an edge
\* that folds a candidate onto a shorter Class.
StatesArePrefixesOrRootWitness ==
    /\ Built
    /\ positive # {} /\ negative # {}
    /\ \E pta \in {left_pta, right_pta} :
        /\ \E e \in pta.edges : e[1] # <<>> /\ e[3] = Append(e[1], e[2])
        /\ \E e \in pta.edges : Len(e[3]) <= Len(e[1])

\* The finite word u runs from the root of the positive tree to p and from
\* the root of the negative tree to n.
joint_run(u, p, n) ==
    /\ has_run(left_pta.edges, <<>>, u)
    /\ reached(left_pta.edges, <<>>, u) = p
    /\ has_run(right_pta.edges, <<>>, u)
    /\ reached(right_pta.edges, <<>>, u) = n

\* Some finite word runs to p in the positive tree and to n in the negative
\* tree.
jointly_reachable(p, n) == \E u \in SeqsUpTo(MaxLen) : joint_run(u, p, n)

\* C36: every conflict pair is jointly reachable, some finite word runs from
\* the root of the positive tree to its first component and from the root of
\* the negative tree to its second component.
ConflictsJointlyReachable ==
    Built => \A c \in conflicts : jointly_reachable(c[1], c[2])

\* There is a conflict pair away from the roots, and a state of the positive
\* tree and a state of the negative tree that lie on cycles of their trees
\* and are not jointly reachable.
ConflictsJointlyReachableWitness ==
    /\ Built
    /\ \E c \in conflicts : c[1] # <<>> /\ c[2] # <<>>
    /\ \E p \in left_pta.states, n \in right_pta.states :
        /\ p \in reach_plus(left_pta.edges, p)
        /\ n \in reach_plus(right_pta.edges, n)
        /\ ~jointly_reachable(p, n)

\* C37: after any sequence of add_new_state, add_state and remove_state
\* calls, add_new_state does not panic and returns an identifier that was not
\* a state before the call and is one after it.
AddNewStateFresh ==
    [][GrowAddNewState =>
          /\ ret' # Panic
          /\ ret'.value \notin ts1.states
          /\ ts1'.states = ts1.states \cup {ret'.value}]_vars

====
